---- MODULE Spec2Model ----
(***************************************************************************)
(* Model of src/src/constants/theme.ts, the UNPOUCHED design-token module. *)
(*                                                                         *)
(* The module is evaluated once, on one host platform (Platform.OS), and   *)
(* exports seven token tables.  Afterwards the only thing that happens is  *)
(* that UI code reads tokens from the exported tables.                     *)
(*                                                                         *)
(* Representation                                                          *)
(*   - a colour string is the sequence of its characters, so that the      *)
(*     template literals `${ACCENT}1F` are real concatenations;            *)
(*   - a value that may be a JavaScript string or undefined (the result of *)
(*     Platform.select) is a tagged record, see JSString / JSUndefined;    *)
(*   - fractional numbers (opacity levels, letterSpacing, cardPress        *)
(*     toValue) are held in hundredths: 0.38 is 38, -1.28 is -128.         *)
(***************************************************************************)
EXTENDS Integers, Sequences, FiniteSets, TLC

VARIABLES OS, MONO_FONT, colors, typography, spacing, layout, opacity,
          animation, overlayStyle, read

tables == <<MONO_FONT, colors, typography, spacing, layout, opacity,
            animation, overlayStyle>>

vars == <<OS, MONO_FONT, colors, typography, spacing, layout, opacity,
          animation, overlayStyle, read>>

----------------------------------------------------------------------------
(* JavaScript values of the one expression that is not a literal.          *)

JSString(s) == [type |-> "string", value |-> s]

JSUndefined == [type |-> "undefined"]

(* The values Platform.OS takes in react-native and its out-of-tree        *)
(* platforms (react-native-web, react-native-windows, react-native-macos). *)
HostPlatforms == {"ios", "android", "web", "windows", "macos"}

(* Platform.select(spec): the entry for the running platform if the spec   *)
(* has one, else `native` (on every platform but web), else `default`,     *)
(* else undefined.                                                         *)
PlatformSelect(os, spec) ==
    IF os \in DOMAIN spec THEN spec[os]
    ELSE IF os # "web" /\ "native" \in DOMAIN spec THEN spec["native"]
    ELSE IF "default" \in DOMAIN spec THEN spec["default"]
    ELSE JSUndefined

----------------------------------------------------------------------------
(* SHARED CONSTANTS                                                        *)

ACCENT == <<"#", "3", "4", "D", "3", "9", "9">>

WARNING == <<"#", "F", "B", "B", "F", "2", "4">>

(* The `as string` cast is erased at run time: MONO_FONT is whatever       *)
(* Platform.select returned.                                               *)
MonoFont(os) ==
    PlatformSelect(os, [ios |-> JSString("Menlo"),
                        android |-> JSString("monospace")])

----------------------------------------------------------------------------
(* COLORS                                                                  *)

ColorsMutSuffix ==
    [bg     |-> [primary   |-> <<"#", "0", "9", "0", "9", "0", "B">>,
                 secondary |-> <<"#", "1", "3", "1", "3", "1", "6">>,
                 elevated  |-> <<"#", "1", "C", "1", "C", "2", "2">>,
                 overlay   |-> <<"#", "0", "0", "0", "0", "0", "0">>],
     text   |-> [primary   |-> <<"#", "F", "4", "F", "4", "F", "5">>,
                 secondary |-> <<"#", "A", "1", "A", "1", "A", "A">>,
                 muted     |-> <<"#", "5", "2", "5", "2", "5", "B">>,
                 inverse   |-> <<"#", "0", "9", "0", "9", "0", "B">>],
     accent |-> [primary      |-> ACCENT,
                 primaryMuted |-> ACCENT \o <<"1", "F">>],
     state  |-> [success      |-> ACCENT,
                 warning      |-> WARNING,
                 warningMuted |-> WARNING \o <<"2", "0">>,
                 error        |-> <<"#", "F", "8", "7", "1", "7", "1">>,
                 info         |-> <<"#", "3", "8", "B", "D", "F", "8">>],
     border |-> [default |-> <<"#", "2", "7", "2", "7", "2", "A">>,
                 accent  |-> ACCENT]]

ColorsMutRole ==
    [bg     |-> [primary   |-> <<"#", "0", "9", "0", "9", "0", "B">>,
                 secondary |-> <<"#", "1", "3", "1", "3", "1", "6">>,
                 elevated  |-> <<"#", "1", "C", "1", "C", "2", "2">>,
                 overlay   |-> <<"#", "0", "0", "0", "0", "0", "0">>],
     text   |-> [primary   |-> <<"#", "F", "4", "F", "4", "F", "5">>,
                 secondary |-> <<"#", "A", "1", "A", "1", "A", "A">>,
                 muted     |-> <<"#", "5", "2", "5", "2", "5", "B">>,
                 inverse   |-> <<"#", "0", "9", "0", "9", "0", "B">>],
     accent |-> [primary      |-> ACCENT,
                 primaryMuted |-> ACCENT \o <<"1", "F">>],
     state  |-> [success      |-> ACCENT,
                 warning      |-> WARNING,
                 warningMuted |-> WARNING \o <<"1", "F">>,
                 error        |-> WARNING,
                 info         |-> <<"#", "3", "8", "B", "D", "F", "8">>],
     border |-> [default |-> <<"#", "2", "7", "2", "7", "2", "A">>,
                 accent  |-> ACCENT]]

Colors ==
    [bg     |-> [primary   |-> <<"#", "0", "9", "0", "9", "0", "B">>,
                 secondary |-> <<"#", "1", "3", "1", "3", "1", "6">>,
                 elevated  |-> <<"#", "1", "C", "1", "C", "2", "2">>,
                 overlay   |-> <<"#", "0", "0", "0", "0", "0", "0">>],
     text   |-> [primary   |-> <<"#", "F", "4", "F", "4", "F", "5">>,
                 secondary |-> <<"#", "A", "1", "A", "1", "A", "A">>,
                 muted     |-> <<"#", "5", "2", "5", "2", "5", "B">>,
                 inverse   |-> <<"#", "0", "9", "0", "9", "0", "B">>],
     accent |-> [primary      |-> ACCENT,
                 primaryMuted |-> ACCENT \o <<"1", "F">>],
     state  |-> [success      |-> ACCENT,
                 warning      |-> WARNING,
                 warningMuted |-> WARNING \o <<"1", "F">>,
                 error        |-> <<"#", "F", "8", "7", "1", "7", "1">>,
                 info         |-> <<"#", "3", "8", "B", "D", "F", "8">>],
     border |-> [default |-> <<"#", "2", "7", "2", "7", "2", "A">>,
                 accent  |-> ACCENT]]

----------------------------------------------------------------------------
(* TYPOGRAPHY (letterSpacing in hundredths of a pixel)                     *)

TypographyMutCaption(mono) ==
    [hero     |-> [fontSize |-> 64, fontWeight |-> "700", lineHeight |-> 64,
                   letterSpacing |-> -128],
     stat     |-> [fontSize |-> 32, fontWeight |-> "600", lineHeight |-> 38,
                   letterSpacing |-> -32],
     h1       |-> [fontSize |-> 24, fontWeight |-> "600", lineHeight |-> 31,
                   letterSpacing |-> -12],
     h2       |-> [fontSize |-> 20, fontWeight |-> "600", lineHeight |-> 26,
                   letterSpacing |-> -6],
     body     |-> [fontSize |-> 16, fontWeight |-> "400", lineHeight |-> 24,
                   letterSpacing |-> 0],
     label    |-> [fontSize |-> 14, fontWeight |-> "500", lineHeight |-> 20,
                   letterSpacing |-> 7],
     caption  |-> [fontSize |-> 11, fontWeight |-> "400", lineHeight |-> 17,
                   letterSpacing |-> 12],
     timer    |-> [fontSize |-> 48, fontWeight |-> "700", lineHeight |-> 48,
                   letterSpacing |-> -48, fontFamily |-> mono],
     timerSub |-> [fontSize |-> 16, fontWeight |-> "400", lineHeight |-> 19,
                   letterSpacing |-> 0, fontFamily |-> mono]]

Typography(mono) ==
    [hero     |-> [fontSize |-> 64, fontWeight |-> "700", lineHeight |-> 64,
                   letterSpacing |-> -128],
     stat     |-> [fontSize |-> 32, fontWeight |-> "600", lineHeight |-> 38,
                   letterSpacing |-> -32],
     h1       |-> [fontSize |-> 24, fontWeight |-> "600", lineHeight |-> 31,
                   letterSpacing |-> -12],
     h2       |-> [fontSize |-> 20, fontWeight |-> "600", lineHeight |-> 26,
                   letterSpacing |-> -6],
     body     |-> [fontSize |-> 16, fontWeight |-> "400", lineHeight |-> 24,
                   letterSpacing |-> 0],
     label    |-> [fontSize |-> 14, fontWeight |-> "500", lineHeight |-> 20,
                   letterSpacing |-> 7],
     caption  |-> [fontSize |-> 12, fontWeight |-> "400", lineHeight |-> 17,
                   letterSpacing |-> 12],
     timer    |-> [fontSize |-> 48, fontWeight |-> "700", lineHeight |-> 48,
                   letterSpacing |-> -48, fontFamily |-> mono],
     timerSub |-> [fontSize |-> 16, fontWeight |-> "400", lineHeight |-> 19,
                   letterSpacing |-> 0, fontFamily |-> mono]]

----------------------------------------------------------------------------
(* SPACING, LAYOUT, OPACITY (hundredths), ANIMATION                        *)

SpacingMutOffGrid ==
    [xs |-> 4, sm |-> 8, md |-> 16, lg |-> 24, xl |-> 30, xxl |-> 48]

Spacing ==
    [xs |-> 4, sm |-> 8, md |-> 16, lg |-> 24, xl |-> 32, xxl |-> 48]

Layout ==
    [screenPaddingH |-> 20, cardPadding |-> 16, cardGap |-> 12,
     cardRadius |-> 12, cardBorderWidth |-> 1, fabSize |-> 56,
     fabElevation |-> 8, minTapTarget |-> 44, scrollPaddingBottom |-> 100]

OpacityMutPercent ==
    [disabled |-> 38, overlay |-> 8000, subtle |-> 12]

OpacityMutSubtle ==
    [disabled |-> 38, overlay |-> 80, subtle |-> 15]

Opacity ==
    [disabled |-> 38, overlay |-> 80, subtle |-> 12]

(* cardPress.toValue in hundredths; durations in milliseconds.             *)
Animation ==
    [modalOpen              |-> [damping |-> 28, stiffness |-> 280],
     modalCloseDuration     |-> 200,
     cardPress              |-> [toValue |-> 97, duration |-> 100],
     countUpDuration        |-> 1500,
     countUpDelay           |-> 300,
     breathingPhaseDuration |-> 4000,
     breathingTotalDuration |-> 90000,
     delayTimerDuration     |-> 180000,
     urgeSurfingDuration    |-> 120000,
     replacementDuration    |-> 60000]

----------------------------------------------------------------------------
(* HELPER: overlay style, built from the two tables already evaluated      *)

OverlayStyleMutHardcoded(c, o) ==
    [backgroundColor |-> <<"#", "0", "0", "0", "0", "0", "0">>,
     opacity         |-> 75]

OverlayStyle(c, o) ==
    [backgroundColor |-> c.bg.overlay,
     opacity         |-> o.overlay]

----------------------------------------------------------------------------
(* The state once the module has been evaluated on some host platform.     *)

NoRead == [table |-> "none", path |-> <<>>, value |-> 0]

Init ==
    /\ OS \in HostPlatforms
    /\ MONO_FONT = MonoFont(OS)
    /\ colors = Colors
    /\ typography = Typography(MONO_FONT)
    /\ spacing = Spacing
    /\ layout = Layout
    /\ opacity = Opacity
    /\ animation = Animation
    /\ overlayStyle = OverlayStyle(colors, opacity)
    /\ read = NoRead

(* Consumers: property reads of the exported tables.                       *)

ReadColors ==
    /\ \E role \in DOMAIN colors : \E k \in DOMAIN colors[role] :
          read' = [table |-> "colors", path |-> <<role, k>>,
                   value |-> colors[role][k]]
    /\ UNCHANGED <<OS, tables>>

ReadTypography ==
    /\ \E preset \in DOMAIN typography : \E k \in DOMAIN typography[preset] :
          read' = [table |-> "typography", path |-> <<preset, k>>,
                   value |-> typography[preset][k]]
    /\ UNCHANGED <<OS, tables>>

ReadSpacingMutWrites ==
    /\ \E k \in DOMAIN spacing :
          /\ read' = [table |-> "spacing", path |-> <<k>>,
                      value |-> spacing[k]]
          /\ spacing' = [spacing EXCEPT ![k] = 0]
    /\ UNCHANGED <<OS, MONO_FONT, colors, typography, layout, opacity,
                   animation, overlayStyle>>

ReadSpacing ==
    /\ \E k \in DOMAIN spacing :
          read' = [table |-> "spacing", path |-> <<k>>, value |-> spacing[k]]
    /\ UNCHANGED <<OS, tables>>

ReadLayout ==
    /\ \E k \in DOMAIN layout :
          read' = [table |-> "layout", path |-> <<k>>, value |-> layout[k]]
    /\ UNCHANGED <<OS, tables>>

ReadOpacity ==
    /\ \E k \in DOMAIN opacity :
          read' = [table |-> "opacity", path |-> <<k>>, value |-> opacity[k]]
    /\ UNCHANGED <<OS, tables>>

ReadAnimation ==
    /\ \E k \in DOMAIN animation :
          read' = [table |-> "animation", path |-> <<k>>,
                   value |-> animation[k]]
    /\ UNCHANGED <<OS, tables>>

ReadOverlayStyle ==
    /\ \E k \in DOMAIN overlayStyle :
          read' = [table |-> "overlayStyle", path |-> <<k>>,
                   value |-> overlayStyle[k]]
    /\ UNCHANGED <<OS, tables>>

Next ==
    \/ ReadColors
    \/ ReadTypography
    \/ ReadSpacing
    \/ ReadLayout
    \/ ReadOpacity
    \/ ReadAnimation
    \/ ReadOverlayStyle

Spec == Init /\ [][Next]_vars

----------------------------------------------------------------------------
(* Helpers for the properties                                               *)

HexDigits ==
    <<"0", "1", "2", "3", "4", "5", "6", "7",
      "8", "9", "A", "B", "C", "D", "E", "F">>

IsHexDigit(c) == \E i \in 1..16 : HexDigits[i] = c

HexDigitValue(c) == (CHOOSE i \in 1..16 : HexDigits[i] = c) - 1

(* The 8-bit alpha channel of a '#RRGGBBAA' string.                        *)
AlphaByte(s) == 16 * HexDigitValue(s[8]) + HexDigitValue(s[9])

IsRRGGBBAA(s) ==
    /\ Len(s) = 9
    /\ s[1] = "#"
    /\ \A i \in 2..9 : IsHexDigit(s[i])

(* A level given in hundredths, scaled to 0..255, rounded to nearest.      *)
ToAlphaByte(hundredths) == (2 * 255 * hundredths + 100) \div 200

AlphaSuffix == <<"1", "F">>

(* modalOpen gives no mass, so the spring runs with the library default.   *)
SpringDefaultMass == 1

----------------------------------------------------------------------------
(* C1: on every host platform MONO_FONT is 'Menlo' (iOS) or 'monospace'    *)
(* (Android), never anything else and never undefined, and both timer      *)
(* presets carry that resolved font.                                       *)
C1_MonoFontIsKnownString ==
    /\ MONO_FONT \in {JSString("Menlo"), JSString("monospace")}
    /\ OS = "ios" => MONO_FONT = JSString("Menlo")
    /\ OS = "android" => MONO_FONT = JSString("monospace")
    /\ typography.timer.fontFamily = MONO_FONT
    /\ typography.timerSub.fontFamily = MONO_FONT

(* C2: once loaded, no step (in particular no read by a consumer) changes  *)
(* any exported table or the font they were built from.                    *)
C2_TablesNeverMutated == [][tables' = tables]_vars

C2_Witness ==
    /\ read.table = "spacing"
    /\ read.path = <<"xl">>
    /\ read.value = 32
    /\ spacing = Spacing
    /\ colors = Colors
    /\ overlayStyle = OverlayStyle(Colors, Opacity)

(* C3: each muted tint is its base colour followed by the alpha suffix     *)
(* '1F': a 9-character '#RRGGBBAA' string whose first 7 characters are the *)
(* base colour.                                                            *)
C3_TintIsBasePlusSuffix ==
    /\ colors.accent.primaryMuted = colors.accent.primary \o AlphaSuffix
    /\ colors.state.warningMuted = colors.state.warning \o AlphaSuffix
    /\ IsRRGGBBAA(colors.accent.primaryMuted)
    /\ IsRRGGBBAA(colors.state.warningMuted)
    /\ SubSeq(colors.accent.primaryMuted, 1, 7) = colors.accent.primary
    /\ SubSeq(colors.state.warningMuted, 1, 7) = colors.state.warning

C3_Witness ==
    /\ read.table = "colors"
    /\ read.path = <<"state", "warningMuted">>
    /\ read.value = <<"#", "F", "B", "B", "F", "2", "4", "1", "F">>

(* C4: every spacing value is a positive multiple of 4, and the values     *)
(* increase strictly in token order xs < sm < md < lg < xl < xxl.          *)
C4_SpacingOnGridAndIncreasing ==
    /\ DOMAIN spacing = {"xs", "sm", "md", "lg", "xl", "xxl"}
    /\ \A k \in DOMAIN spacing : spacing[k] > 0 /\ spacing[k] % 4 = 0
    /\ spacing.xs < spacing.sm
    /\ spacing.sm < spacing.md
    /\ spacing.md < spacing.lg
    /\ spacing.lg < spacing.xl
    /\ spacing.xl < spacing.xxl

C4_Witness ==
    /\ read.table = "spacing"
    /\ read.path = <<"xxl">>
    /\ read.value = 48
    /\ read.value % 4 = 0

(* C5: warning and error are distinct; success, accent.primary and         *)
(* border.accent all equal the one accent value; warning, error and info   *)
(* differ from it.                                                         *)
C5_RolesShareOnlyByDesign ==
    /\ colors.state.warning # colors.state.error
    /\ colors.state.success = colors.accent.primary
    /\ colors.border.accent = colors.accent.primary
    /\ colors.state.warning # colors.accent.primary
    /\ colors.state.error # colors.accent.primary
    /\ colors.state.info # colors.accent.primary

C5_Witness ==
    /\ read.table = "colors"
    /\ read.path = <<"state", "success">>
    /\ read.value = colors.border.accent
    /\ read.value # colors.state.error

(* C6: every opacity level lies in [0,1], i.e. 0..100 in hundredths.       *)
C6_OpacityInUnitInterval ==
    /\ DOMAIN opacity = {"disabled", "overlay", "subtle"}
    /\ \A k \in DOMAIN opacity : 0 <= opacity[k] /\ opacity[k] <= 100

C6_Witness ==
    /\ read.table = "opacity"
    /\ read.path = <<"overlay">>
    /\ read.value = 80

(* C7: no typography preset has a font size below 12, and caption is the   *)
(* smallest at exactly 12.                                                 *)
C7_NoFontBelow12 ==
    /\ DOMAIN typography = {"hero", "stat", "h1", "h2", "body", "label",
                            "caption", "timer", "timerSub"}
    /\ \A p \in DOMAIN typography : typography[p].fontSize >= 12
    /\ typography.caption.fontSize = 12
    /\ \A p \in DOMAIN typography :
          typography[p].fontSize >= typography.caption.fontSize

C7_Witness ==
    /\ read.table = "typography"
    /\ read.path = <<"caption", "fontSize">>
    /\ read.value = 12

(* C8: the modalOpen spring does not bounce: with the default mass of 1,   *)
(* damping^2 >= 4 * stiffness * mass.                                      *)
C8_ModalOpenNotUnderdamped ==
    animation.modalOpen.damping * animation.modalOpen.damping
        >= 4 * animation.modalOpen.stiffness * SpringDefaultMass

(* C9: overlayStyle carries exactly the overlay colour and the overlay     *)
(* opacity of the token tables.                                            *)
C9_OverlaySingleSource ==
    /\ overlayStyle.backgroundColor = colors.bg.overlay
    /\ overlayStyle.opacity = opacity.overlay

C9_Witness ==
    /\ read.table = "overlayStyle"
    /\ read.path = <<"opacity">>
    /\ read.value = opacity.overlay
    /\ read.value = 80

(* C10: both muted tints end in the same alpha suffix, whose 8-bit value   *)
(* (31) is opacity.subtle scaled to 0..255 and rounded to nearest.         *)
C10_SuffixEncodesSubtle ==
    /\ SubSeq(colors.accent.primaryMuted, 8, 9)
          = SubSeq(colors.state.warningMuted, 8, 9)
    /\ AlphaByte(colors.accent.primaryMuted) = 31
    /\ AlphaByte(colors.accent.primaryMuted) = ToAlphaByte(opacity.subtle)
    /\ AlphaByte(colors.state.warningMuted) = ToAlphaByte(opacity.subtle)

C10_Witness ==
    /\ read.table = "colors"
    /\ read.path = <<"accent", "primaryMuted">>
    /\ AlphaByte(read.value) = 31
    /\ opacity.subtle = 12

====
